---- MODULE Spec2Model ----
(***************************************************************************)
(* Follyo: a flat-file crypto portfolio tracker.                           *)
(*                                                                         *)
(* The model covers the record model (models.py), the JSON storage         *)
(* (storage.py), the portfolio service (portfolio.py) and the summary      *)
(* command of the command line (cli.py).                                   *)
(*                                                                         *)
(* Encoding.  A Python dict is a TLA+ function whose domain is the set of  *)
(* its keys; a list is a sequence; None is the string "None"; a str that   *)
(* passes through str.upper() is a sequence of one-character strings; a    *)
(* amount or price is an integer (no rounding is modelled).  The file at   *)
(* data_path is the record disk: whether it exists, and its text.  The     *)
(* text is <<>> for no bytes, <<document>> for the JSON text of one        *)
(* document, and <<a, b>> for the text of a written over the start of the  *)
(* longer text of b, which does not parse.  A call that raises returns     *)
(* the name of the exception in the field exc.                             *)
(***************************************************************************)
EXTENDS Integers, Sequences, FiniteSets, TLC

VARIABLES
    disk,       \* the file at data_path: [exists, text]
    constructed,\* whether a PortfolioStorage has been constructed
    lastOp,     \* the call that completed last: [op, arg]
    ret,        \* what that call returned or raised: [exc, val]
    wrote,      \* whether that call went through _save_data
    log,        \* history of the calls made one at a time: per collection,
                \* the records added so far, each with a flag telling
                \* whether a remove call has hit it
    pc,         \* interleaved writers: "idle", "loaded" or "opened"
    localData,  \* interleaved writers: the data each writer loaded
    pending,    \* interleaved writers: the call in progress, per writer
    stale,      \* interleaved writers: another writer has written since
                \* this writer's load
    overlapped, \* interleaved writers: another writer has opened or
                \* written the file since this writer opened it
    race,       \* interleaved writers: the write just made by a writer
                \* whose data was stale
    began       \* interleaved writers: number of calls begun

vars == <<disk, constructed, lastOp, ret, wrote, log, pc, localData, pending,
          stale, overlapped, race, began>>

----------------------------------------------------------------------------
(* Bounds and input sets *)

MaxAdds == 3        \* add_* calls in one behaviour, all collections together
MaxCalls == 3       \* calls begun by the interleaved writers

None == "None"
Today == "2026-10-29"   \* datetime.now().strftime("%Y-%m-%d")

\* str(uuid.uuid4())[:8]: eight characters of a random token
Ids == {"0a1b2c3d", "deadbeef"}

BTC_lower == <<"b", "t", "c">>
BTC_upper == <<"B", "T", "C">>
ETH_mixed == <<"E", "t", "h">>

\* Arguments of Portfolio.add_holding
HoldingArgs ==
    { [coin |-> BTC_lower, amount |-> 1, purchase_price_usd |-> 3,
       platform |-> None, notes |-> None, date |-> None],
      [coin |-> BTC_upper, amount |-> -1, purchase_price_usd |-> 3,
       platform |-> "Ledger", notes |-> "cold", date |-> "2024-01-01"] }

\* Arguments of Portfolio.add_loan
LoanArgs ==
    { [coin |-> BTC_lower, amount |-> 1, platform |-> "Nexo",
       interest_rate |-> None, notes |-> None, date |-> None],
      [coin |-> ETH_mixed, amount |-> 3, platform |-> "Celsius",
       interest_rate |-> None, notes |-> None, date |-> ""] }

\* Arguments of the add_sale call of the command line
SaleArgs ==
    { [coin |-> BTC_lower, amount |-> 1, sell_price_usd |-> 5,
       platform |-> "Kraken", notes |-> None, date |-> None] }

Writers == {1, 2}

----------------------------------------------------------------------------
(* models.py *)

\* str.upper() on the characters the inputs use
UpperChar(c) ==
    CASE c = "b" -> "B"
      [] c = "t" -> "T"
      [] c = "c" -> "C"
      [] c = "e" -> "E"
      [] c = "h" -> "H"
      [] OTHER -> c

Upper(s) == [i \in 1..Len(s) |-> UpperChar(s[i])]

\* Python truthiness of an optional str: None and "" are false
Falsy(x) == x \in {None, ""}

\* Faulty variant of Holding.create: the id is a default evaluated once, so
\* every record gets the same one
Holding_create_one_id(a, newId) ==
    [id |-> "0a1b2c3d",
     coin |-> Upper(a.coin),
     amount |-> a.amount,
     purchase_price_usd |-> a.purchase_price_usd,
     date |-> IF Falsy(a.date) THEN Today ELSE a.date,
     platform |-> a.platform,
     notes |-> a.notes]

\* Holding.create, models.py
Holding_create(a, newId) ==
    [id |-> newId,
     coin |-> Upper(a.coin),
     amount |-> a.amount,
     purchase_price_usd |-> a.purchase_price_usd,
     date |-> IF Falsy(a.date) THEN Today ELSE a.date,
     platform |-> a.platform,
     notes |-> a.notes]

\* Loan.create, models.py
Loan_create(a, newId) ==
    [id |-> newId,
     coin |-> Upper(a.coin),
     amount |-> a.amount,
     platform |-> a.platform,
     date |-> IF Falsy(a.date) THEN Today ELSE a.date,
     interest_rate |-> a.interest_rate,
     notes |-> a.notes]

\* The record a caller hands to PortfolioStorage.add_sale.  models.py
\* defines no Sale; shape and rules are those of the data model of the
\* specification
Sale_create(a, newId) ==
    [id |-> newId,
     coin |-> Upper(a.coin),
     amount |-> a.amount,
     sell_price_usd |-> a.sell_price_usd,
     date |-> IF Falsy(a.date) THEN Today ELSE a.date,
     platform |-> a.platform,
     notes |-> a.notes]

\* dataclasses.asdict on a flat record: every field, under its name
to_dict(r) == [k \in DOMAIN r |-> r[k]]

\* Holding.from_dict: cls(**data)
Holding_from_dict(d) ==
    [id |-> d.id, coin |-> d.coin, amount |-> d.amount,
     purchase_price_usd |-> d.purchase_price_usd, date |-> d.date,
     platform |-> d.platform, notes |-> d.notes]

\* Loan.from_dict: cls(**data)
Loan_from_dict(d) ==
    [id |-> d.id, coin |-> d.coin, amount |-> d.amount,
     platform |-> d.platform, date |-> d.date,
     interest_rate |-> d.interest_rate, notes |-> d.notes]

\* Holding.total_value_usd
total_value_usd(h) == h.amount * h.purchase_price_usd

----------------------------------------------------------------------------
(* Results of calls *)

\* A call that returned v
Returned(v) == [exc |-> "", val |-> v]

\* A call that raised e
Failed(e) == [exc |-> e, val |-> None]

----------------------------------------------------------------------------
(* storage.py *)

\* The document _ensure_data_file writes
EmptyDocument == [holdings |-> <<>>, loans |-> <<>>, sales |-> <<>>]

\* A document written before the sales collection existed
LegacyDocument == [holdings |-> <<>>, loans |-> <<>>]

\* No file at data_path
NoFile == [exists |-> FALSE, text |-> <<>>]

\* A file with this text
FileOf(text) == [exists |-> TRUE, text |-> text]

exists(d) == d.exists

\* Number of characters of str(n) for an int n
RECURSIVE Digits(_)
Digits(n) == IF n < 10 THEN 1 ELSE 1 + Digits(n \div 10)

NumLen(n) == IF n < 0 THEN 1 + Digits(-n) ELSE Digits(n)

\* Number of characters json.dump writes for the value of one field
ValueLen(key, v) ==
    CASE key \in {"amount", "purchase_price_usd", "sell_price_usd"} -> NumLen(v)
      [] key = "coin" -> Len(v) + 2
      [] OTHER -> IF v = None THEN 4 ELSE Len(v) + 2

\* One entry at indent 4: "{", one line per field at indent 6, "}"
FieldLen(key, v) == 6 + Len(key) + 2 + 2 + ValueLen(key, v)

RECURSIVE FieldsLen(_, _)
FieldsLen(e, keys) ==
    IF keys = {}
    THEN 0
    ELSE LET k == CHOOSE x \in keys : TRUE
         IN  FieldLen(k, e[k]) + FieldsLen(e, keys \ {k})

EntryLen(e) ==
    2 + FieldsLen(e, DOMAIN e) + 2 * (Cardinality(DOMAIN e) - 1) + 6

RECURSIVE EntriesLen(_)
EntriesLen(entries) ==
    IF entries = <<>>
    THEN 0
    ELSE 4 + EntryLen(Head(entries)) + EntriesLen(Tail(entries))

\* One collection at indent 2: "[]", or "[", the entries, "]"
ListLen(entries) ==
    IF entries = <<>>
    THEN 2
    ELSE 2 + EntriesLen(entries) + 2 * (Len(entries) - 1) + 4

KeyLen(key, entries) == 2 + Len(key) + 2 + 2 + ListLen(entries)

RECURSIVE KeysLen(_, _)
KeysLen(data, keys) ==
    IF keys = {}
    THEN 0
    ELSE LET k == CHOOSE x \in keys : TRUE
         IN  KeyLen(k, data[k]) + KeysLen(data, keys \ {k})

\* Number of characters of json.dump(data, f, indent=2)
DocLen(data) ==
    2 + KeysLen(data, DOMAIN data) + 2 * (Cardinality(DOMAIN data) - 1) + 2

\* open(self.data_path, "w"): the file exists and holds no bytes
open_for_write == FileOf(<<>>)

\* json.dump(data, f) and the close that flushes it: the text of data goes
\* to the start of the file; what the file holds beyond its end stays
dump_and_close(d, data) ==
    IF d.text = <<>> \/ DocLen(data) >= DocLen(d.text[Len(d.text)])
    THEN FileOf(<<data>>)
    ELSE FileOf(<<data, d.text[Len(d.text)]>>)

\* PortfolioStorage._save_data, run from open to close
save_data(data) == dump_and_close(open_for_write, data)

\* What open(self.data_path, "r") or json.load raises, "" when neither does
load_error(d) ==
    IF ~d.exists
    THEN "FileNotFoundError"
    ELSE IF Len(d.text) # 1 THEN "JSONDecodeError" ELSE ""

\* PortfolioStorage._load_data, on a file that loads
load_data(d) == d.text[1]

\* dict.get(key, [])
Get(data, key) == IF key \in DOMAIN data THEN data[key] ELSE <<>>

\* data[key] = value, for a key that may be new
SetKey(data, key, value) ==
    [k \in DOMAIN data \cup {key} |-> IF k = key THEN value ELSE data[k]]

\* The outcome of a storage call that returns: the file afterwards, the
\* value returned, whether _save_data ran
Outcome(d, v, w) == [disk |-> d, val |-> v, wrote |-> w, exc |-> ""]

\* The outcome of a storage call that raises before it writes
Raised(d, e) == [disk |-> d, val |-> None, wrote |-> FALSE, exc |-> e]

\* Faulty variant of _ensure_data_file: no test for an existing file
ensure_data_file_unguarded(d) ==
    Outcome(save_data(EmptyDocument), None, TRUE)

\* PortfolioStorage._ensure_data_file
ensure_data_file(d) ==
    IF ~exists(d)
    THEN Outcome(save_data(EmptyDocument), None, TRUE)
    ELSE Outcome(d, None, FALSE)

\* [Holding.from_dict(h) for h in data.get("holdings", [])]
get_holdings(d) ==
    IF load_error(d) # ""
    THEN Failed(load_error(d))
    ELSE LET entries == Get(load_data(d), "holdings")
         IN  Returned([i \in 1..Len(entries) |-> Holding_from_dict(entries[i])])

get_loans(d) ==
    IF load_error(d) # ""
    THEN Failed(load_error(d))
    ELSE LET entries == Get(load_data(d), "loans")
         IN  Returned([i \in 1..Len(entries) |-> Loan_from_dict(entries[i])])

\* [Sale.from_dict(s) for s in data.get("sales", [])]: models.py defines no
\* Sale, so the name is unbound when the comprehension evaluates it for its
\* first entry; over no entries it is not evaluated and the call returns
\* the empty list
get_sales(d) ==
    IF load_error(d) # ""
    THEN Failed(load_error(d))
    ELSE IF Get(load_data(d), "sales") = <<>>
         THEN Returned(<<>>)
         ELSE Failed("NameError")

\* data["holdings"].append(holding.to_dict())
append_holding(data, holding) ==
    [data EXCEPT !["holdings"] = Append(@, to_dict(holding))]

append_loan(data, loan) ==
    [data EXCEPT !["loans"] = Append(@, to_dict(loan))]

\* if "sales" not in data: data["sales"] = []; data["sales"].append(...)
append_sale(data, sale) ==
    LET d1 == IF "sales" \notin DOMAIN data
              THEN SetKey(data, "sales", <<>>)
              ELSE data
    IN  [d1 EXCEPT !["sales"] = Append(@, to_dict(sale))]

add_holding(d, holding) ==
    IF load_error(d) # ""
    THEN Raised(d, load_error(d))
    ELSE Outcome(save_data(append_holding(load_data(d), holding)),
                 holding, TRUE)

add_loan(d, loan) ==
    IF load_error(d) # ""
    THEN Raised(d, load_error(d))
    ELSE Outcome(save_data(append_loan(load_data(d), loan)), loan, TRUE)

\* Faulty variant of add_sale: the record goes into a new document, not
\* into the one loaded
add_sale_into_new_document(d, sale) ==
    Outcome(save_data(append_sale(EmptyDocument, sale)), sale, TRUE)

add_sale(d, sale) ==
    IF load_error(d) # ""
    THEN Raised(d, load_error(d))
    ELSE Outcome(save_data(append_sale(load_data(d), sale)), sale, TRUE)

\* Faulty variant of the filter in remove_*: == for !=
WithId(entries, theId) == SelectSeq(entries, LAMBDA e : e.id = theId)

\* [h for h in entries if h["id"] != the_id]
WithoutId(entries, theId) == SelectSeq(entries, LAMBDA e : e.id # theId)

filter_holdings(data, theId) ==
    [data EXCEPT !["holdings"] = WithoutId(@, theId)]

filter_loans(data, theId) ==
    [data EXCEPT !["loans"] = WithoutId(@, theId)]

filter_sales(data, theId) ==
    SetKey(data, "sales", WithoutId(Get(data, "sales"), theId))

\* Faulty variant of the tail of remove_*: the save is not under the if
save_then_compare(d, data, key, original_len) ==
    Outcome(save_data(data), Len(data[key]) < original_len, TRUE)

\* The tail of remove_*: save and return True when the list got shorter
save_if_shorter(d, data, key, original_len) ==
    IF Len(data[key]) < original_len
    THEN Outcome(save_data(data), TRUE, TRUE)
    ELSE Outcome(d, FALSE, FALSE)

remove_holding(d, holding_id) ==
    IF load_error(d) # ""
    THEN Raised(d, load_error(d))
    ELSE LET data == load_data(d)
         IN  save_if_shorter(d, filter_holdings(data, holding_id), "holdings",
                             Len(data["holdings"]))

remove_loan(d, loan_id) ==
    IF load_error(d) # ""
    THEN Raised(d, load_error(d))
    ELSE LET data == load_data(d)
         IN  save_if_shorter(d, filter_loans(data, loan_id), "loans",
                             Len(data["loans"]))

remove_sale(d, sale_id) ==
    IF load_error(d) # ""
    THEN Raised(d, load_error(d))
    ELSE LET data == load_data(d)
         IN  save_if_shorter(d, filter_sales(data, sale_id), "sales",
                             Len(Get(data, "sales")))

----------------------------------------------------------------------------
(* portfolio.py *)

list_holdings(d) == get_holdings(d)
list_loans(d) == get_loans(d)

\* portfolio.list_sales(), as the command line calls it: class Portfolio
\* defines no list_sales, so the attribute lookup raises whatever the file
list_sales(d) == Failed("AttributeError")

\* defaultdict(float)
EmptyDict == [c \in {} |-> 0]

\* Faulty variant of the accumulation: = for +=
AssignTo(by_coin, coin, amount) ==
    [c \in DOMAIN by_coin \cup {coin} |->
        IF c = coin THEN amount ELSE by_coin[c]]

\* by_coin[coin] += amount on a defaultdict(float): a missing key starts at 0
AddTo(by_coin, coin, amount) ==
    IF coin \in DOMAIN by_coin
    THEN [by_coin EXCEPT ![coin] = @ + amount]
    ELSE [c \in DOMAIN by_coin \cup {coin} |->
            IF c = coin THEN 0 + amount ELSE by_coin[c]]

\* for r in records: by_coin[r.coin] += r.amount
RECURSIVE SumByCoin(_, _)
SumByCoin(records, by_coin) ==
    IF records = <<>>
    THEN by_coin
    ELSE SumByCoin(Tail(records),
                   AddTo(by_coin, Head(records).coin, Head(records).amount))

get_holdings_by_coin(d) ==
    LET holdings == list_holdings(d)
    IN  IF holdings.exc # ""
        THEN holdings
        ELSE Returned(SumByCoin(holdings.val, EmptyDict))

get_loans_by_coin(d) ==
    LET loans == list_loans(d)
    IN  IF loans.exc # ""
        THEN loans
        ELSE Returned(SumByCoin(loans.val, EmptyDict))

\* dict.get(coin, 0)
GetOr0(dict, coin) == IF coin \in DOMAIN dict THEN dict[coin] ELSE 0

\* Faulty variant of get_net_holdings_by_coin: the coins of the holdings
\* only, not the union
get_net_of_held_coins(d) ==
    LET holdings == get_holdings_by_coin(d)
        loans == get_loans_by_coin(d)
    IN  IF holdings.exc # ""
        THEN holdings
        ELSE IF loans.exc # ""
        THEN loans
        ELSE Returned([coin \in DOMAIN holdings.val |->
                GetOr0(holdings.val, coin) - GetOr0(loans.val, coin)])

get_net_holdings_by_coin(d) ==
    LET holdings == get_holdings_by_coin(d)
        loans == get_loans_by_coin(d)
    IN  IF holdings.exc # ""
        THEN holdings
        ELSE IF loans.exc # ""
        THEN loans
        ELSE LET all_coins == DOMAIN holdings.val \cup DOMAIN loans.val
             IN  Returned([coin \in all_coins |->
                     GetOr0(holdings.val, coin) - GetOr0(loans.val, coin)])

\* sum(h.total_value_usd for h in holdings)
RECURSIVE SumValue(_)
SumValue(holdings) ==
    IF holdings = <<>>
    THEN 0
    ELSE total_value_usd(Head(holdings)) + SumValue(Tail(holdings))

get_total_invested_usd(d) ==
    LET holdings == list_holdings(d)
    IN  IF holdings.exc # ""
        THEN holdings
        ELSE Returned(SumValue(holdings.val))

\* Every call get_summary makes loads the same file, so the first load
\* decides whether it raises
get_summary(d) ==
    LET holdings == list_holdings(d)
    IN  IF holdings.exc # ""
        THEN holdings
        ELSE Returned(
               [total_holdings_count |-> Len(holdings.val),
                total_loans_count |-> Len(list_loans(d).val),
                total_invested_usd |-> get_total_invested_usd(d).val,
                holdings_by_coin |-> get_holdings_by_coin(d).val,
                loans_by_coin |-> get_loans_by_coin(d).val,
                net_by_coin |-> get_net_holdings_by_coin(d).val])

----------------------------------------------------------------------------
(* cli.py *)

\* The keys the summary command subscripts, in the order it reads them
SummaryReads ==
    << "holdings_by_coin", "sales_by_coin", "loans_by_coin", "net_by_coin",
       "total_holdings_count", "total_sales_count", "total_loans_count",
       "total_invested_usd", "total_sold_usd" >>

\* summary[key] for each key in turn: the first missing key raises KeyError
RECURSIVE ReadKeys(_, _)
ReadKeys(bundle, keys) ==
    IF keys = <<>>
    THEN Returned(None)
    ELSE IF Head(keys) \notin DOMAIN bundle
         THEN [exc |-> "KeyError", val |-> Head(keys)]
         ELSE ReadKeys(bundle, Tail(keys))

summary(d) ==
    LET bundle == get_summary(d)
    IN  IF bundle.exc # "" THEN bundle ELSE ReadKeys(bundle.val, SummaryReads)

----------------------------------------------------------------------------
(* History kept beside the program state *)

Entry(r) == [rec |-> r, removed |-> FALSE]

\* A remove call with this id hits every entry that carries the id
MarkRemoved(entries, theId) ==
    [i \in 1..Len(entries) |->
        IF entries[i].rec.id = theId
        THEN [entries[i] EXCEPT !.removed = TRUE]
        ELSE entries[i]]

TotalAdds == Len(log.holdings) + Len(log.loans) + Len(log.sales)

Op(name, arg) == [op |-> name, arg |-> arg]

NoCall == [op |-> "none", id |-> None, rec |-> <<>>]

NoRace ==
    [hit |-> FALSE, call |-> NoCall, snapshot |-> <<>>, before |-> NoFile,
     overlapped |-> FALSE]

----------------------------------------------------------------------------
(* One call at a time: every call runs from its load to its return *)

Init ==
    /\ disk \in {NoFile, FileOf(<<LegacyDocument>>)}
    /\ constructed = FALSE
    /\ lastOp = Op("none", None)
    /\ ret = Returned(None)
    /\ wrote = FALSE
    /\ log = [holdings |-> <<>>, loans |-> <<>>, sales |-> <<>>]
    /\ pc = [w \in Writers |-> "idle"]
    /\ localData = [w \in Writers |-> <<>>]
    /\ pending = [w \in Writers |-> NoCall]
    /\ stale = [w \in Writers |-> FALSE]
    /\ overlapped = [w \in Writers |-> FALSE]
    /\ race = NoRace
    /\ began = 0

WritersIdle ==
    UNCHANGED <<pc, localData, pending, stale, overlapped, race, began>>

\* The effect of a completed storage call on the program state
Complete(out, name, arg) ==
    /\ disk' = out.disk
    /\ ret' = [exc |-> out.exc, val |-> out.val]
    /\ wrote' = out.wrote
    /\ lastOp' = Op(name, arg)

\* PortfolioStorage.__init__
Construct ==
    /\ constructed' = TRUE
    /\ Complete(ensure_data_file(disk), "init", None)
    /\ UNCHANGED log
    /\ WritersIdle

\* Portfolio.add_holding
AddHolding ==
    /\ constructed
    /\ TotalAdds < MaxAdds
    /\ \E a \in HoldingArgs, newId \in Ids :
          LET holding == Holding_create(a, newId)
          IN  /\ Complete(add_holding(disk, holding), "add_holding", newId)
              /\ log' = [log EXCEPT !.holdings = Append(@, Entry(holding))]
    /\ UNCHANGED constructed
    /\ WritersIdle

\* Portfolio.add_loan
AddLoan ==
    /\ constructed
    /\ TotalAdds < MaxAdds
    /\ \E a \in LoanArgs, newId \in Ids :
          LET loan == Loan_create(a, newId)
          IN  /\ Complete(add_loan(disk, loan), "add_loan", newId)
              /\ log' = [log EXCEPT !.loans = Append(@, Entry(loan))]
    /\ UNCHANGED constructed
    /\ WritersIdle

\* portfolio.add_sale(...), as the command line calls it: class Portfolio
\* defines no add_sale, so the attribute lookup raises before any argument
\* is looked at; nothing is loaded or saved
AddSale ==
    /\ constructed
    /\ Complete(Raised(disk, "AttributeError"), "add_sale", None)
    /\ UNCHANGED <<constructed, log>>
    /\ WritersIdle

\* PortfolioStorage.add_sale, called with a sale record
StorageAddSale ==
    /\ constructed
    /\ TotalAdds < MaxAdds
    /\ \E a \in SaleArgs, newId \in Ids :
          LET sale == Sale_create(a, newId)
          IN  /\ Complete(add_sale(disk, sale), "storage.add_sale", newId)
              /\ log' = [log EXCEPT !.sales = Append(@, Entry(sale))]
    /\ UNCHANGED constructed
    /\ WritersIdle

\* Portfolio.remove_holding
RemoveHolding ==
    /\ constructed
    /\ \E theId \in Ids :
          /\ Complete(remove_holding(disk, theId), "remove_holding", theId)
          /\ log' = [log EXCEPT !.holdings = MarkRemoved(@, theId)]
    /\ UNCHANGED constructed
    /\ WritersIdle

\* Portfolio.remove_loan
RemoveLoan ==
    /\ constructed
    /\ \E theId \in Ids :
          /\ Complete(remove_loan(disk, theId), "remove_loan", theId)
          /\ log' = [log EXCEPT !.loans = MarkRemoved(@, theId)]
    /\ UNCHANGED constructed
    /\ WritersIdle

\* portfolio.remove_sale(sale_id), as the command line calls it: class
\* Portfolio defines no remove_sale, so the attribute lookup raises
RemoveSale ==
    /\ constructed
    /\ \E theId \in Ids :
          Complete(Raised(disk, "AttributeError"), "remove_sale", theId)
    /\ UNCHANGED <<constructed, log>>
    /\ WritersIdle

\* PortfolioStorage.remove_sale
StorageRemoveSale ==
    /\ constructed
    /\ \E theId \in Ids :
          /\ Complete(remove_sale(disk, theId), "storage.remove_sale", theId)
          /\ log' = [log EXCEPT !.sales = MarkRemoved(@, theId)]
    /\ UNCHANGED constructed
    /\ WritersIdle

\* The summary command of the command line
Summary ==
    /\ constructed
    /\ ret' = summary(disk)
    /\ lastOp' = Op("summary", None)
    /\ wrote' = FALSE
    /\ UNCHANGED <<disk, constructed, log>>
    /\ WritersIdle

Next ==
    \/ Construct
    \/ AddHolding
    \/ AddLoan
    \/ AddSale
    \/ StorageAddSale
    \/ RemoveHolding
    \/ RemoveLoan
    \/ RemoveSale
    \/ StorageRemoveSale
    \/ Summary

Spec == Init /\ [][Next]_vars

----------------------------------------------------------------------------
(* Two writers on one file.  A call is a load, then the open that        *)
(* truncates the file, then the dump and close that write it.  Between    *)
(* any two of these steps of one writer the other writer may take steps.  *)

\* The calls a writer can make
Calls ==
    {[op |-> "add_holding", id |-> i, rec |-> <<Holding_create(a, i)>>] :
        a \in HoldingArgs, i \in Ids}
    \cup {[op |-> "add_loan", id |-> i, rec |-> <<Loan_create(a, i)>>] :
        a \in LoanArgs, i \in Ids}
    \cup {[op |-> "storage.add_sale", id |-> i, rec |-> <<Sale_create(a, i)>>] :
        a \in SaleArgs, i \in Ids}
    \cup {[op |-> o, id |-> i, rec |-> <<>>] :
        o \in {"remove_holding", "remove_loan", "storage.remove_sale"},
        i \in Ids}

\* The storage call c run on the file d
Call(c, d) ==
    CASE c.op = "add_holding" -> add_holding(d, c.rec[1])
      [] c.op = "add_loan" -> add_loan(d, c.rec[1])
      [] c.op = "storage.add_sale" -> add_sale(d, c.rec[1])
      [] c.op = "remove_holding" -> remove_holding(d, c.id)
      [] c.op = "remove_loan" -> remove_loan(d, c.id)
      [] c.op = "storage.remove_sale" -> remove_sale(d, c.id)

\* What a call does after its load: it changes the data it loaded and
\* saves it if it has to, whatever the file holds by now
writer_outcome(c, snapshot) == Call(c, FileOf(snapshot))

\* Variant of a call that reads the file again when it saves, as a call
\* holding a lock over load and save would: the change is made to what the
\* file held when the call opened it
writer_data_rereading(c, snapshot) ==
    IF load_error(c.before) = ""
    THEN load_data(Call(c, c.before).disk)
    ELSE load_data(Call(c, FileOf(snapshot)).disk)

\* The data a call that saves hands to _save_data
writer_data(c, snapshot) == load_data(writer_outcome(c, snapshot).disk)

\* data = self._load_data(): the call raises when the file does not parse
Begin(w) ==
    /\ constructed
    /\ pc[w] = "idle"
    /\ began < MaxCalls
    /\ began' = began + 1
    /\ race' = NoRace
    /\ \E c \in Calls :
          IF load_error(disk) # ""
          THEN /\ ret' = Failed(load_error(disk))
               /\ lastOp' = Op(c.op, c.id)
               /\ wrote' = FALSE
               /\ UNCHANGED <<pending, localData, pc, stale>>
          ELSE /\ pending' = [pending EXCEPT ![w] = c]
               /\ localData' = [localData EXCEPT ![w] = <<load_data(disk)>>]
               /\ pc' = [pc EXCEPT ![w] = "loaded"]
               /\ stale' = [stale EXCEPT ![w] = FALSE]
               /\ UNCHANGED <<lastOp, ret, wrote>>
    /\ UNCHANGED <<disk, constructed, overlapped, log>>

\* A remove call that took nothing out: return False, no save
NoSave(w) ==
    /\ pc[w] = "loaded"
    /\ ~writer_outcome(pending[w], localData[w]).wrote
    /\ ret' = Returned(writer_outcome(pending[w], localData[w]).val)
    /\ wrote' = FALSE
    /\ lastOp' = Op(pending[w].op, pending[w].id)
    /\ pc' = [pc EXCEPT ![w] = "idle"]
    /\ pending' = [pending EXCEPT ![w] = NoCall]
    /\ localData' = [localData EXCEPT ![w] = <<>>]
    /\ stale' = [stale EXCEPT ![w] = FALSE]
    /\ race' = NoRace
    /\ UNCHANGED <<disk, constructed, overlapped, began, log>>

\* _save_data, first step: open(self.data_path, "w") truncates the file;
\* the call in progress keeps, for the record, the file as it was before
Open(w) ==
    /\ pc[w] = "loaded"
    /\ writer_outcome(pending[w], localData[w]).wrote
    /\ disk' = open_for_write
    /\ pc' = [pc EXCEPT ![w] = "opened"]
    /\ overlapped' = [v \in Writers |->
                        IF v = w
                        THEN FALSE
                        ELSE overlapped[v] \/ pc[v] = "opened"]
    /\ race' = NoRace
    /\ pending' = [pending EXCEPT ![w] =
                       [op |-> @.op, id |-> @.id, rec |-> @.rec,
                        before |-> disk]]
    /\ UNCHANGED <<constructed, lastOp, ret, wrote, log, localData, stale,
                   began>>

\* _save_data, second step: json.dump and the close of the with block
\* write the text at the start of the file; then the call returns
Write(w) ==
    /\ pc[w] = "opened"
    /\ LET c == pending[w]
           out == writer_outcome(c, localData[w])
       IN  /\ disk' = dump_and_close(disk, writer_data(c, localData[w]))
           /\ ret' = Returned(out.val)
           /\ wrote' = TRUE
           /\ lastOp' = Op(c.op, c.id)
           /\ race' = IF stale[w]
                      THEN [hit |-> TRUE,
                            call |-> [op |-> c.op, id |-> c.id, rec |-> c.rec],
                            snapshot |-> localData[w], before |-> c.before,
                            overlapped |-> overlapped[w]]
                      ELSE NoRace
    /\ stale' = [v \in Writers |->
                   IF v = w THEN FALSE ELSE stale[v] \/ pc[v] # "idle"]
    /\ overlapped' = [v \in Writers |->
                        IF v = w
                        THEN FALSE
                        ELSE overlapped[v] \/ pc[v] = "opened"]
    /\ pc' = [pc EXCEPT ![w] = "idle"]
    /\ pending' = [pending EXCEPT ![w] = NoCall]
    /\ localData' = [localData EXCEPT ![w] = <<>>]
    /\ UNCHANGED <<constructed, began, log>>

\* The writers share a storage that has been constructed, on no file or on
\* a file from before the sales collection
ConcInit ==
    /\ \E d \in {NoFile, FileOf(<<LegacyDocument>>)} :
          /\ disk = ensure_data_file(d).disk
          /\ wrote = ensure_data_file(d).wrote
    /\ constructed = TRUE
    /\ lastOp = Op("init", None)
    /\ ret = Returned(None)
    /\ log = [holdings |-> <<>>, loans |-> <<>>, sales |-> <<>>]
    /\ pc = [w \in Writers |-> "idle"]
    /\ localData = [w \in Writers |-> <<>>]
    /\ pending = [w \in Writers |-> NoCall]
    /\ stale = [w \in Writers |-> FALSE]
    /\ overlapped = [w \in Writers |-> FALSE]
    /\ race = NoRace
    /\ began = 0

ConcNext ==
    \/ \E w \in Writers : Begin(w)
    \/ \E w \in Writers : NoSave(w)
    \/ \E w \in Writers : Open(w)
    \/ \E w \in Writers : Write(w)

ConcSpec == ConcInit /\ [][ConcNext]_vars

----------------------------------------------------------------------------
(* Vocabulary of the properties *)

Kinds == {"holdings", "loans", "sales"}

AddOp(kind) ==
    CASE kind = "holdings" -> "add_holding"
      [] kind = "loans" -> "add_loan"
      [] kind = "sales" -> "storage.add_sale"

RemoveOp(kind) ==
    CASE kind = "holdings" -> "remove_holding"
      [] kind = "loans" -> "remove_loan"
      [] kind = "sales" -> "storage.remove_sale"

\* The entries of a collection as they stand in the file
Stored(d, kind) == Get(load_data(d), kind)

\* Portfolio.list_<kind>: what it returns or raises
Listed(d, kind) ==
    CASE kind = "holdings" -> list_holdings(d)
      [] kind = "loans" -> list_loans(d)
      [] kind = "sales" -> list_sales(d)

\* PortfolioStorage.get_<kind>: what it returns or raises
Got(d, kind) ==
    CASE kind = "holdings" -> get_holdings(d)
      [] kind = "loans" -> get_loans(d)
      [] kind = "sales" -> get_sales(d)

IdsIn(entries) == {entries[i].id : i \in 1..Len(entries)}

CoinsIn(entries) == {entries[i].coin : i \in 1..Len(entries)}

Matches(entries, theId) == {i \in 1..Len(entries) : entries[i].id = theId}

UniqueIds(entries) ==
    \A i, j \in 1..Len(entries) : entries[i].id = entries[j].id => i = j

\* The j-th smallest element of a set of positions
Nth(positions, j) ==
    CHOOSE p \in positions : Cardinality({q \in positions : q < p}) = j - 1

\* after is before with exactly the entries at the positions gone kept out,
\* the others in their order
IsBeforeWithout(after, before, gone) ==
    LET kept == (1..Len(before)) \ gone
    IN  /\ Len(after) = Cardinality(kept)
        /\ \A j \in 1..Len(after) : after[j] = before[Nth(kept, j)]

\* The step just taken is a remove_<kind> call
IsRemove(kind) == lastOp'.op = RemoveOp(kind)

OthersUntouched(kind) ==
    \A other \in Kinds \ {kind} : Stored(disk', other) = Stored(disk, other)

\* Sum of the amounts of the entries of one coin
RECURSIVE AmountOf(_, _, _)
AmountOf(entries, coin, n) ==
    IF n = 0
    THEN 0
    ELSE AmountOf(entries, coin, n - 1)
         + (IF entries[n].coin = coin THEN entries[n].amount ELSE 0)

TotalOf(entries, coin) == AmountOf(entries, coin, Len(entries))

\* The records of the history that no remove call has hit, oldest first
RECURSIVE Live(_)
Live(entries) ==
    IF entries = <<>>
    THEN <<>>
    ELSE IF Head(entries).removed
         THEN Live(Tail(entries))
         ELSE <<Head(entries).rec>> \o Live(Tail(entries))

----------------------------------------------------------------------------
(* C1: remove_<kind>(id) with an id present in the collection *)

\* C1 as claimed: removing an id that is present in a collection returns
\* true, makes the collection exactly one entry shorter by taking out one
\* matching entry, keeps the others in order, and leaves the other two
\* collections untouched.
C1_RemoveExistingDropsExactlyOne ==
    [][\A kind \in Kinds :
        (IsRemove(kind) /\ lastOp'.arg \in IdsIn(Stored(disk, kind)))
        => /\ ret' = Returned(TRUE)
           /\ Len(Stored(disk', kind)) = Len(Stored(disk, kind)) - 1
           /\ \E i \in Matches(Stored(disk, kind), lastOp'.arg) :
                 IsBeforeWithout(Stored(disk', kind), Stored(disk, kind), {i})
           /\ OthersUntouched(kind)]_vars

\* C1 amended: removing an id that is present in a collection returns true,
\* writes, takes out every entry that carries the id (exactly one when the
\* id is unique in the collection), keeps the others in order, and leaves
\* the other two collections untouched.
C1_RemoveExistingDropsAllMatches ==
    [][\A kind \in Kinds :
        (IsRemove(kind) /\ lastOp'.arg \in IdsIn(Stored(disk, kind)))
        => LET before == Stored(disk, kind)
               after == Stored(disk', kind)
               gone == Matches(before, lastOp'.arg)
           IN  /\ ret' = Returned(TRUE)
               /\ wrote'
               /\ load_error(disk') = ""
               /\ Len(after) = Len(before) - Cardinality(gone)
               /\ UniqueIds(before) => Len(after) = Len(before) - 1
               /\ IsBeforeWithout(after, before, gone)
               /\ OthersUntouched(kind)]_vars

\* A remove call has taken one entry out of a collection that holds others
C1_Witness ==
    /\ lastOp.op = "remove_holding"
    /\ ret = Returned(TRUE)
    /\ Len(Stored(disk, "holdings")) = 2
    /\ Len(Stored(disk, "loans")) + Len(Stored(disk, "sales")) = 0
    /\ \E i \in 1..Len(log.holdings) :
          /\ log.holdings[i].removed
          /\ i < Len(log.holdings)

----------------------------------------------------------------------------
(* C2: remove_<kind>(id) with an id that matches no entry *)

\* C2: a remove call whose id matches no entry of the collection raises
\* nothing, returns false, does not write, and leaves the file as it was.
C2_RemoveMissingIsSilent ==
    [][\A kind \in Kinds :
        (IsRemove(kind) /\ lastOp'.arg \notin IdsIn(Stored(disk, kind)))
        => /\ ret' = Returned(FALSE)
           /\ ~wrote'
           /\ disk' = disk]_vars

\* A remove call has missed in a file that holds records
C2_Witness ==
    /\ lastOp.op \in {"remove_loan", "storage.remove_sale"}
    /\ ret = Returned(FALSE)
    /\ Len(Stored(disk, "holdings")) >= 1
    /\ Len(Stored(disk, "loans")) >= 1

----------------------------------------------------------------------------
(* C3: the lists are in insertion order *)

\* C3: on a constructed portfolio each of list_holdings, list_loans and
\* list_sales returns the records of its kind that were added and not
\* since removed, in the order they were added.
C3_ListsInInsertionOrder ==
    constructed =>
        \A kind \in Kinds :
            /\ Listed(disk, kind).exc = ""
            /\ Listed(disk, kind).val = Live(log[kind])

\* The part of C3 the code keeps: list_holdings and list_loans return the
\* records added and not since removed, oldest first; list_sales raises
\* on every file, and get_sales of the storage returns the empty list
\* while no sale is stored and raises once one is.
ListsOfHoldingsAndLoansInInsertionOrder ==
    exists(disk) =>
        /\ \A kind \in {"holdings", "loans"} :
              Listed(disk, kind) = Returned(Live(log[kind]))
        /\ Listed(disk, "sales").exc = "AttributeError"
        /\ Got(disk, "sales").exc = IF Stored(disk, "sales") = <<>>
                                    THEN ""
                                    ELSE "NameError"
        /\ Stored(disk, "sales") = Live(log.sales)

\* A list holds two records added after a record that has been removed
TwoListedAfterARemoval ==
    /\ exists(disk)
    /\ \E kind \in {"holdings", "loans"} :
          /\ Len(Listed(disk, kind).val) = 2
          /\ Len(log[kind]) = 3
          /\ log[kind][1].removed
          /\ Listed(disk, kind).val[1] # Listed(disk, kind).val[2]

----------------------------------------------------------------------------
(* C4: a sale leaves the net holdings and the invested total alone *)

\* C4: an add_sale call changes neither get_net_holdings_by_coin() nor
\* get_total_invested_usd(): add_sale of the storage appends to the sales
\* and leaves the holdings and the loans as they were, and add_sale of the
\* portfolio, which raises, leaves the file as it was.
C4_SaleLeavesNetAndInvested ==
    [][lastOp'.op \in {"add_sale", "storage.add_sale"}
        => /\ ret'.exc = IF lastOp'.op = "add_sale"
                         THEN "AttributeError"
                         ELSE ""
           /\ get_net_holdings_by_coin(disk').exc = ""
           /\ get_net_holdings_by_coin(disk') = get_net_holdings_by_coin(disk)
           /\ get_total_invested_usd(disk') = get_total_invested_usd(disk)
           /\ Stored(disk', "holdings") = Stored(disk, "holdings")
           /\ Stored(disk', "loans") = Stored(disk, "loans")
           /\ Len(Stored(disk', "sales"))
                 = Len(Stored(disk, "sales"))
                   + (IF lastOp'.op = "add_sale" THEN 0 ELSE 1)]_vars

\* A sale has been added to a file that holds a holding and a loan
C4_Witness ==
    /\ lastOp.op = "storage.add_sale"
    /\ Len(Stored(disk, "sales")) = 1
    /\ Len(Stored(disk, "holdings")) = 1
    /\ Len(Stored(disk, "loans")) = 1
    /\ get_total_invested_usd(disk).val # 0

----------------------------------------------------------------------------
(* C5: net holdings by coin *)

\* C5: get_net_holdings_by_coin() has one key per coin that appears in the
\* holdings or in the loans, and maps it to the sum of its holding amounts
\* minus the sum of its loan amounts, a missing side counting as zero;
\* negative results are returned like any other.
C5_NetIsHoldingsMinusLoans ==
    exists(disk) =>
        LET net == get_net_holdings_by_coin(disk)
            holdings == Stored(disk, "holdings")
            loans == Stored(disk, "loans")
        IN  /\ net.exc = ""
            /\ DOMAIN net.val = CoinsIn(holdings) \cup CoinsIn(loans)
            /\ \A coin \in DOMAIN net.val :
                  net.val[coin] = TotalOf(holdings, coin) - TotalOf(loans, coin)

\* One coin is net negative with both sides present, another is on loan only
C5_Witness ==
    /\ exists(disk)
    /\ LET net == get_net_holdings_by_coin(disk).val
       IN  /\ \E coin \in DOMAIN net :
                /\ net[coin] < 0
                /\ coin \in CoinsIn(Stored(disk, "holdings"))
                /\ coin \in CoinsIn(Stored(disk, "loans"))
           /\ \E coin \in DOMAIN net :
                coin \notin CoinsIn(Stored(disk, "holdings"))

----------------------------------------------------------------------------
(* C6: holdings and loans by coin *)

\* C6 as claimed: the aggregates by coin hold no entry whose value is zero.
C6_NoZeroEntries ==
    exists(disk) =>
        /\ \A coin \in DOMAIN get_holdings_by_coin(disk).val :
              get_holdings_by_coin(disk).val[coin] # 0
        /\ \A coin \in DOMAIN get_loans_by_coin(disk).val :
              get_loans_by_coin(disk).val[coin] # 0

\* C6 amended: get_holdings_by_coin() and get_loans_by_coin() have one key
\* per coin that has at least one record in the collection, mapped to the
\* sum of the amounts of that coin's records; a coin without records is
\* absent, a coin whose amounts sum to zero is present with the value zero.
C6_OneEntryPerCoinWithRecords ==
    exists(disk) =>
        LET holdings == get_holdings_by_coin(disk)
            loans == get_loans_by_coin(disk)
        IN  /\ holdings.exc = ""
            /\ loans.exc = ""
            /\ DOMAIN holdings.val = CoinsIn(Stored(disk, "holdings"))
            /\ \A coin \in DOMAIN holdings.val :
                  holdings.val[coin] = TotalOf(Stored(disk, "holdings"), coin)
            /\ DOMAIN loans.val = CoinsIn(Stored(disk, "loans"))
            /\ \A coin \in DOMAIN loans.val :
                  loans.val[coin] = TotalOf(Stored(disk, "loans"), coin)

\* The holdings of one coin sum to zero and the coin is a key all the same
C6_Witness ==
    /\ exists(disk)
    /\ \E coin \in DOMAIN get_holdings_by_coin(disk).val :
          get_holdings_by_coin(disk).val[coin] = 0
    /\ Len(Stored(disk, "holdings")) = 2

----------------------------------------------------------------------------
(* C7: ids within a collection *)

\* C7 as claimed: no two entries of one collection carry the same id.
C7_IdsAlwaysUnique ==
    exists(disk) => \A kind \in Kinds : UniqueIds(Stored(disk, kind))

\* C7 amended: a collection whose ids are unique keeps them unique through
\* every remove call and through every add call to another collection, and
\* through an add call to itself exactly when the generated id is not
\* already carried by one of its entries; add does not look at the entries.
C7_UniqueUnlessGeneratedIdCollides ==
    [][\A kind \in Kinds :
        (exists(disk) /\ UniqueIds(Stored(disk, kind)))
        => IF lastOp'.op = AddOp(kind)
           THEN /\ ret'.exc = ""
                /\ ret'.val.id = lastOp'.arg
                /\ UniqueIds(Stored(disk', kind))
                      <=> lastOp'.arg \notin IdsIn(Stored(disk, kind))
           ELSE UniqueIds(Stored(disk', kind))]_vars

\* An add call has drawn a fresh id for a collection that held an entry
C7_Witness ==
    /\ \E kind \in Kinds :
          /\ lastOp.op = AddOp(kind)
          /\ Len(Stored(disk, kind)) = 2
          /\ UniqueIds(Stored(disk, kind))

----------------------------------------------------------------------------
(* C8: constructing a storage *)

\* C8: constructing a PortfolioStorage where no file exists writes the
\* document with the three collections empty; constructing one where a file
\* exists writes nothing and leaves the file, and so the records a fresh
\* instance returns, as they were.
C8_ConstructIsIdempotent ==
    [][lastOp'.op = "init"
        => IF exists(disk)
           THEN /\ disk' = disk
                /\ ~wrote'
                /\ \A kind \in Kinds : Got(disk', kind) = Got(disk, kind)
           ELSE /\ disk' = FileOf(<<EmptyDocument>>)
                /\ wrote'
                /\ DOMAIN load_data(disk') = Kinds
                /\ \A kind \in Kinds : Got(disk', kind) = Returned(<<>>)]_vars

\* A second storage has been constructed on a file that holds records
C8_Witness ==
    /\ lastOp.op = "init"
    /\ ~wrote
    /\ Len(list_holdings(disk).val) >= 1
    /\ Len(list_loans(disk).val) >= 1

----------------------------------------------------------------------------
(* C10: the summary command and the summary bundle *)

\* C10: every key the summary command reads is in the bundle get_summary()
\* returns, so the command ends without a KeyError.
C10_SummaryCommandCompletes ==
    lastOp.op = "summary" =>
        /\ ret.exc = ""
        /\ \A i \in 1..Len(SummaryReads) :
              SummaryReads[i] \in DOMAIN get_summary(disk).val

----------------------------------------------------------------------------
(* C9: two writers, one file *)

\* The file holds the document the call of the write just made loaded,
\* with the change of that call alone
HoldsOwnChangeOnly ==
    LET c == race.call
        snapshot == FileOf(race.snapshot)
    IN  /\ load_error(disk) = ""
        /\ \A kind \in Kinds :
              IF c.op = AddOp(kind)
              THEN Stored(disk, kind)
                      = Append(Stored(snapshot, kind), to_dict(c.rec[1]))
              ELSE IF c.op = RemoveOp(kind)
              THEN IsBeforeWithout(Stored(disk, kind), Stored(snapshot, kind),
                                   Matches(Stored(snapshot, kind), c.id))
              ELSE Stored(disk, kind) = Stored(snapshot, kind)

\* The call of the write just made returned success
ReturnedSuccess ==
    /\ ret.exc = ""
    /\ wrote
    /\ IF race.call.rec = <<>>
       THEN ret.val = TRUE
       ELSE ret.val = race.call.rec[1]

\* C9: a lost update.  When a writer saves after another writer has saved
\* since its load, each save running from its open to its close as the one
\* overwrite the claim takes it for, the call returns success and the file
\* becomes the document the writer loaded with its own change alone:
\* whatever the other writer had saved in between is lost.
C9_StaleSaveKeepsOnlyOwnChange ==
    (race.hit /\ ~race.overlapped) => ReturnedSuccess /\ HoldsOwnChangeOnly

\* Beyond the claim: _save_data is an open that truncates and a dump that
\* writes, and the other writer can step between the two.  A stale save
\* that overlaps the other save still returns success, and leaves either
\* the saver's document alone or, when the document written last is
\* shorter than the one under it, a file that does not parse.
OverlappedSaveLosesUpdateOrBreaksFile ==
    (race.hit /\ race.overlapped) =>
        /\ ReturnedSuccess
        /\ HoldsOwnChangeOnly \/ load_error(disk) = "JSONDecodeError"

\* Two add_loan calls loaded the same empty collection; the first saved its
\* record, the second saved and returned its own, and the file holds the
\* record of the second only
C9_Witness ==
    /\ race.hit
    /\ ~race.overlapped
    /\ race.call.op = "add_loan"
    /\ ret = Returned(race.call.rec[1])
    /\ pc = [w \in Writers |-> "idle"]
    /\ Stored(FileOf(race.snapshot), "loans") = <<>>
    /\ Len(Stored(race.before, "loans")) = 1
    /\ Stored(race.before, "loans")[1] # race.call.rec[1]
    /\ Stored(disk, "loans") = <<race.call.rec[1]>>

\* A remove_loan call opened the file, an add_loan call saved a longer
\* document, and the dump of the remove_loan call went over its start
BrokenFile ==
    /\ race.hit
    /\ race.overlapped
    /\ race.call.op = "remove_loan"
    /\ ret = Returned(TRUE)
    /\ load_error(disk) = "JSONDecodeError"

\* A call began while the file was open for writing and empty
LoadOfTruncatedFile ==
    /\ ret.exc = "JSONDecodeError"
    /\ disk = open_for_write

====
